---- MODULE Spec2Model ----
(***************************************************************************)
(* Model of crossfitgames/api/api_calls.py: the leaderboard page walk of   *)
(* games_info_multiple, games_info_competitors,                            *)
(* games_info_competitor_multiple and games_info_scores, with the error    *)
(* handlers each of them installs around its fetches.                      *)
(*                                                                         *)
(* One behaviour is one call of one public function (variable entry).      *)
(* The remote API is the environment: it reports, per division, the        *)
(* metadata totalPages / totalCompetitors and serves the pages; a fetch    *)
(* may fail (requests raises RequestException) and a metadata response may *)
(* lack a key (KeyError).                                                  *)
(***************************************************************************)
EXTENDS Integers, Sequences, FiniteSets, TLC

(* ---------------------------- bounds ---------------------------------- *)
\* largest totalPages the API reports in the model
MaxPages == 3
\* number of fetches that may fail in one behaviour
MaxFailures == 2
\* number of years in the largest [year_from, year_too] range
MaxYears == 2

(* ------------------------ program constants --------------------------- *)
\* athletes per leaderboard page (range(50), % 50, * 50)
PageSize == 50
\* default of the year parameter; first year of the ranges of the model
FirstYear == 2018

(* ---------------------------- helpers --------------------------------- *)
Range(s) == {s[i] : i \in DOMAIN s}

\* Python's range(n) as a sequence: 0, 1, ..., n-1 (empty when n <= 0)
PyRange(n) == [i \in 1..n |-> i - 1]

RECURSIVE Flatten(_)
Flatten(ss) == IF ss = <<>> THEN <<>> ELSE Head(ss) \o Flatten(Tail(ss))

Min(a, b) == IF a < b THEN a ELSE b
Max(a, b) == IF a > b THEN a ELSE b

(* ---------------------------- the API --------------------------------- *)
\* The leaderboards of both divisions and of every year of a call have the
\* same size; the reported totalPages need not match totalCompetitors.
\* totalCompetitors values of the model: multiples of the page size and
\* counts that leave a remainder of 10 on the last page
Totals == {n \in 0..(MaxPages * PageSize) : n % PageSize \in {0, 10}}

Metas == [totalPages : 0..MaxPages, totalCompetitors : Totals]

\* number of rows in leaderboardRows of page p when the division holds
\* total competitors: full pages of PageSize, the rest on the last one
RowsOnPage(total, p) == Max(0, Min(PageSize, total - PageSize * (p - 1)))

(* ------------------------- strings and cells -------------------------- *)
\* A string whose content the code inspects is a sequence of characters.
DigitChars == <<"0", "1", "2", "3", "4", "5", "6", "7", "8", "9">>
IsDigit(c) == c \in Range(DigitChars)
DigitVal(c) == (CHOOSE k \in DOMAIN DigitChars : DigitChars[k] = c) - 1

\* int(s) for a string of digits
RECURSIVE ParseInt(_)
ParseInt(s) ==
    IF s = <<>> THEN 0
    ELSE 10 * ParseInt(SubSeq(s, 1, Len(s) - 1)) + DigitVal(s[Len(s)])

\* str(n) for n >= 0
RECURSIVE ToChars(_)
ToChars(n) ==
    IF n < 10 THEN <<DigitChars[n + 1]>>
    ELSE ToChars(n \div 10) \o <<DigitChars[(n % 10) + 1]>>

\* the longest run of digits s starts with
RECURSIVE LeadingDigits(_)
LeadingDigits(s) ==
    IF s = <<>> \/ ~IsDigit(Head(s)) THEN <<>>
    ELSE <<Head(s)>> \o LeadingDigits(Tail(s))

\* re.findall(r'\d+', x): the maximal runs of digits of x, left to right
RECURSIVE FindAllDigits(_)
FindAllDigits(x) ==
    IF x = <<>> THEN <<>>
    ELSE IF IsDigit(Head(x))
         THEN LET run == LeadingDigits(x)
              IN  <<run>> \o FindAllDigits(SubSeq(x, Len(run) + 1, Len(x)))
         ELSE FindAllDigits(Tail(x))

\* A table cell of a column of mixed type: a string, an integer or null/NaN.
Str(s) == [t |-> "str", s |-> s, n |-> 0]
Num(n) == [t |-> "int", s |-> <<>>, n |-> n]
Null == [t |-> "null", s |-> <<>>, n |-> 0]

CUT == <<"C", "U", "T">>
WD == <<"W", "D">>
DNF == <<"D", "N", "F">>

(* --------------------- data the API serves ---------------------------- *)
\* A competitor is identified by the division, page and row index the API
\* serves it at.
Position(id) == PageSize * (id[2] - 1) + id[3] + 1

CompetitionId(y) == y - 2000
Events == {1, 2}

\* leaderboardRows[idx]: entrant, overallScore, overallRank of a competitor
EntrantOf(id) ==
    [competitorId |-> id,
     height       |-> IF id[3] % 2 = 0 THEN <<"7", "2">> ELSE <<"6", "5">>,
     weight       |-> (IF id[3] % 2 = 0 THEN <<"2", "0", "5">>
                       ELSE <<"1", "5", "0">>) \o <<" ", "l", "b">>,
     age          |-> IF id[3] % 3 = 0 THEN <<"2", "8">> ELSE <<"3", "1">>,
     overallScore |-> ToChars(1000 - Position(id)),
     overallRank  |-> ToChars(Position(id))
                      \o (IF id[3] % 4 = 1 THEN <<"T">> ELSE <<>>)]

\* leaderboardRows[idx]['scores'][e]['rank']: a placement, as a number or
\* as a string of digits, or one of the strings CUT, WD, DNF
RankOf(id, e) ==
    LET k == (id[3] + e) % 6
    IN  IF k = 3 THEN Str(CUT)
        ELSE IF k = 4 THEN Str(WD)
        ELSE IF k = 5 THEN Str(DNF)
        ELSE IF k = 0 THEN Str(ToChars(Position(id)))
        ELSE Num(Position(id))

ScoreDisplayOf(id, e) ==
    IF e = 1 THEN <<"2", "0", "5", " ", "l", "b">> ELSE DNF

(* ------------------------------ state --------------------------------- *)
VARIABLES
    entry,       \* the public function called
    division,    \* its division argument
    year_from,   \* its year range (one year for the single-year functions)
    year_too,
    meta,        \* pagination the API reports for a division's leaderboard
    malformed,   \* row indexes the API serves without the expected keys
    fails,       \* fetches that have failed so far
    fetchLog,    \* every games_json_dump call made, in order, with its outcome
    errlog,      \* every except clause entered, in order
    pc,          \* position in the code
    year,        \* loop variable / argument year
    di,          \* index of the loop variable div in division_value
    info,        \* info_response
    page,        \* loop variable page
    df,          \* the accumulating table, a row being (competitor[, event])
    walk,        \* per fetched page, the row indexes the inner loop ranges over
    result,      \* "none", "returned" or "raised": how the function ended
    returned,    \* the table it returned
    mdf,         \* df_games_info_competitor_multiple
    mresult      \* how games_info_competitor_multiple ended

vars == <<entry, division, year_from, year_too, meta, malformed, fails,
          fetchLog, errlog, pc, year, di, info, page, df, walk, result,
          returned, mdf, mresult>>

call == <<entry, division, year_from, year_too, meta, malformed>>

(* ------------------------ the code's functions ------------------------ *)
\* DivisionValue without its second case: [1] if division == 1 else [1, 2]
DivisionValueNoSecondCase(d) == IF d = 1 THEN <<1>> ELSE <<1, 2>>

\* division_value = [1] if division == 1 else [2] if division == 2 else [1, 2]
DivisionValue(d) == IF d = 1 THEN <<1>> ELSE IF d = 2 THEN <<2>> ELSE <<1, 2>>

\* games_info: [competition_id, total_pages, total_competitors, total_events]
\* (info_response[1] of the code is info[2] here, info_response[2] is info[3])
GamesInfo(y, d) ==
    <<CompetitionId(y), meta.totalPages, meta.totalCompetitors,
      Cardinality(Events)>>

\* CompetitorsOnPage with page <= info_response[1] for page < info_response[1]
CompetitorsOnPageInclusive(p, total_pages, total_competitors) ==
    IF p <= total_pages THEN PyRange(PageSize)
    ELSE PyRange(total_competitors % PageSize)

\* competitors_on_page of games_info_competitors
CompetitorsOnPage(p, total_pages, total_competitors) ==
    IF p < total_pages THEN PyRange(PageSize)
    ELSE PyRange(total_competitors % PageSize)

\* num_results of games_info_scores
NumResults(p, total_pages, total_results) ==
    IF p = total_pages THEN total_results - (total_pages - 1) * PageSize
    ELSE PageSize

\* response['leaderboardRows'][idx] with its keys can be read
RowReadable(p, idx) ==
    idx < RowsOnPage(meta.totalCompetitors, p) /\ idx \notin malformed

\* the number of leading indexes of idxs the loop body completes for before
\* an IndexError or KeyError leaves the loop
GoodPrefixLen(p, idxs) ==
    IF \A j \in DOMAIN idxs : RowReadable(p, idxs[j]) THEN Len(idxs)
    ELSE (CHOOSE j \in DOMAIN idxs :
              /\ ~RowReadable(p, idxs[j])
              /\ \A k \in 1..(j - 1) : RowReadable(p, idxs[k])) - 1

Fetch(by, y, d, p, outcome) ==
    [by |-> by, year |-> y, division |-> d, page |-> p, outcome |-> outcome]

Caught(handler, y, d, p) ==
    [handler |-> handler, year |-> y, division |-> d, page |-> p]

GamesInfoOutcomes == {"ok", "RequestException", "KeyError"}

MayFail(outcome) == outcome = "ok" \/ fails < MaxFailures
Failed(outcome) == IF outcome = "ok" THEN fails ELSE fails + 1

(* ----------------------- transformation functions --------------------- *)
\* inch_to_cm: the leading integer, in inches, times 2.54 (in 1/100 cm)
InchToCm(s) == ParseInt(LeadingDigits(s)) * 254

\* lb_to_kg: the leading integer, in pounds, times 0.4536 (in 1/10000 kg);
\* NaN when the string starts with no number
LbToKg(s) ==
    IF LeadingDigits(s) = <<>> THEN Null
    ELSE Num(ParseInt(LeadingDigits(s)) * 4536)

\* pd.to_numeric of one cell
Coercible(c) ==
    c.t # "str" \/ (c.s # <<>> /\ \A j \in DOMAIN c.s : IsDigit(c.s[j]))
ToNumeric(c) == IF c.t = "str" THEN Num(ParseInt(c.s)) ELSE c

\* convert_object_columns_to_numeric on one column: coerced as a whole, or
\* left unchanged when some cell is not a number
ColumnToNumeric(col) ==
    IF \A i \in DOMAIN col : Coercible(col[i])
    THEN [i \in DOMAIN col |-> ToNumeric(col[i])]
    ELSE col

(* ----------------------- games_info_multiple -------------------------- *)
\* One iteration of "for div in division_value" inside "for year in range":
\* games_info, the row appended; the except clause of the year's try block
\* leaves the division loop and continues with the next year.
InfoMultipleStep(outcome) ==
    /\ entry = "games_info_multiple"
    /\ pc = "im_div"
    /\ MayFail(outcome)
    /\ LET dv  == DivisionValue(division)
           div == dv[di]
           ok  == outcome = "ok"
           nextYear == IF ok /\ di < Len(dv) THEN year ELSE year + 1
       IN  /\ fetchLog' = Append(fetchLog, Fetch("games_info", year, div, 1, outcome))
           /\ fails' = Failed(outcome)
           /\ df' = IF ok THEN Append(df, GamesInfo(year, div) \o <<year, div>>)
                    ELSE df
           /\ errlog' = IF ok THEN errlog
                        ELSE Append(errlog, Caught("year", year, div, 1))
           /\ year' = nextYear
           /\ di' = IF ok /\ di < Len(dv) THEN di + 1 ELSE 1
           /\ pc' = IF nextYear > year_too THEN "im_ret" ELSE "im_div"
    /\ UNCHANGED <<call, info, page, walk, result, returned, mdf, mresult>>

\* return convert_object_columns_to_numeric(df_games_info_multiple): the
\* columns hold Python ints, whose values the coercion keeps
InfoMultipleReturn ==
    /\ entry = "games_info_multiple"
    /\ pc = "im_ret"
    /\ returned' = df
    /\ result' = "returned"
    /\ pc' = "done"
    /\ UNCHANGED <<call, fails, fetchLog, errlog, year, di, info, page, df,
                   walk, mdf, mresult>>

(* ---------------------- games_info_competitors ------------------------ *)
InCompetitors ==
    entry \in {"games_info_competitors", "games_info_competitor_multiple"}

\* a returned row: the entrant with the transformations of lines 141-150
CompetitorRow(id) ==
    LET e == EntrantOf(id)
        w == FindAllDigits(e.weight)
        r == FindAllDigits(e.overallRank)
    IN  [competitorId |-> id,
         height       |-> e.height,
         weight       |-> w,
         age          |-> ParseInt(e.age),
         overallScore |-> ParseInt(e.overallScore),
         overallRank  |-> ParseInt(r[1]),
         heightInCm   |-> InchToCm(e.height),
         weightInKg   |-> LbToKg(w[1])]

\* "for div in division_value": games_info for the division; when it raises,
\* the except clause of the division's try block continues with the next one
CompetitorsDivision(outcome) ==
    /\ InCompetitors
    /\ pc = "c_div"
    /\ MayFail(outcome)
    /\ LET dv  == DivisionValue(division)
           div == dv[di]
           ok  == outcome = "ok"
           r   == GamesInfo(year, div)
           pages == ok /\ r[2] >= 1
       IN  /\ fetchLog' = Append(fetchLog, Fetch("games_info", year, div, 1, outcome))
           /\ fails' = Failed(outcome)
           /\ errlog' = IF ok THEN errlog
                        ELSE Append(errlog, Caught("division", year, div, 1))
           /\ info' = IF ok THEN r ELSE info
           /\ page' = IF pages THEN 1 ELSE page
           /\ di' = IF ~pages /\ di < Len(dv) THEN di + 1 ELSE di
           /\ pc' = IF pages THEN "c_page"
                    ELSE IF di < Len(dv) THEN "c_div" ELSE "c_post"
    /\ UNCHANGED <<call, year, df, walk, result, returned, mdf, mresult>>

\* One iteration of "for page in range(1, info_response[1] + 1)": the page
\* is fetched and its rows appended one by one; the except clause of the
\* page's try block continues with the next page.
CompetitorsPage(outcome) ==
    /\ InCompetitors
    /\ pc = "c_page"
    /\ outcome \in {"ok", "RequestException"}
    /\ MayFail(outcome)
    /\ LET dv   == DivisionValue(division)
           div  == dv[di]
           ok   == outcome = "ok"
           idxs == CompetitorsOnPage(page, info[2], info[3])
           k    == GoodPrefixLen(page, idxs)
           last == page >= info[2]
       IN  /\ fetchLog' = Append(fetchLog, Fetch("page", year, div, page, outcome))
           /\ fails' = Failed(outcome)
           /\ walk' = IF ok THEN Append(walk, [division |-> div, page |-> page,
                                               idxs |-> idxs])
                      ELSE walk
           /\ df' = IF ok THEN df \o [j \in 1..k |-> <<div, page, idxs[j]>>]
                    ELSE df
           /\ errlog' = IF ok /\ k = Len(idxs) THEN errlog
                        ELSE Append(errlog, Caught("page", year, div, page))
           /\ page' = IF last THEN page ELSE page + 1
           /\ di' = IF last /\ di < Len(dv) THEN di + 1 ELSE di
           /\ pc' = IF ~last THEN "c_page"
                    ELSE IF di < Len(dv) THEN "c_div" ELSE "c_post"
    /\ UNCHANGED <<call, year, info, result, returned, mdf, mresult>>

\* The transformations after the loops, outside every try block.
\* df['weight'] raises KeyError when no row was appended (the frame has no
\* column).  With rows, overallRank holds the lists re.findall returns and
\* astype('int') of a list depends on the installed pandas / numpy: it
\* converts a one-element list or raises.
CompetitorsTransform(converts) ==
    /\ InCompetitors
    /\ pc = "c_post"
    /\ IF df = <<>>
       THEN /\ result' = "raised"
            /\ returned' = returned
       ELSE IF converts
       THEN /\ result' = "returned"
            /\ returned' = [i \in DOMAIN df |-> CompetitorRow(df[i])]
       ELSE /\ result' = "raised"
            /\ returned' = returned
    /\ pc' = IF entry = "games_info_competitors" THEN "done" ELSE "m_ret"
    /\ UNCHANGED <<call, fails, fetchLog, errlog, year, di, info, page, df,
                   walk, mdf, mresult>>

(* ------------------ games_info_competitor_multiple -------------------- *)
\* games_info_competitors(year, division) has ended inside "for year in
\* range(year_from, year_too + 1)".  An exception leaves the loop and the
\* function (except KeyError re-raises, any other propagates); a returned
\* table is tagged with the year and concatenated, and the next year called.
CompetitorMultipleNext ==
    /\ entry = "games_info_competitor_multiple"
    /\ pc = "m_ret"
    /\ IF result = "raised"
       THEN /\ mresult' = "raised"
            /\ pc' = "done"
            /\ UNCHANGED <<year, di, info, page, df, walk, result, returned, mdf>>
       ELSE /\ mdf' = mdf \o [i \in DOMAIN returned |->
                                 returned[i] @@ ("year" :> year)]
            /\ year' = year + 1
            /\ di' = 1
            /\ info' = <<>>
            /\ page' = 0
            /\ df' = <<>>
            /\ walk' = <<>>
            /\ result' = "none"
            /\ returned' = <<>>
            /\ mresult' = IF year < year_too THEN mresult ELSE "returned"
            /\ pc' = IF year < year_too THEN "c_div" ELSE "done"
    /\ UNCHANGED <<call, fails, fetchLog, errlog>>

(* ------------------------- games_info_scores -------------------------- *)
\* ScoresFallback returning the rows accumulated so far
ScoresFallbackPartial(partial) == partial

\* the table the except clause of the function's try block returns:
\* pd.DataFrame()
ScoresFallback(partial) == <<>>

\* ScoresHandler with the try block ending before the transformations, as
\* in games_info_competitors
ScoresHandlerLoopsOnly(site) ==
    IF site = "row" THEN "competitor"
    ELSE IF site = "transform" THEN "none"
    ELSE "top"

\* The except clause an exception raised at a site of games_info_scores
\* reaches: the try block of lines 227-236 encloses the body of the row loop,
\* the try block of lines 203-252 everything from the division loop to the
\* return, transformations included.
ScoresHandler(site) == IF site = "row" THEN "competitor" ELSE "top"

\* an exception raised at site, outside the row loop
ScoresRaise(site, div) ==
    IF ScoresHandler(site) = "top"
    THEN /\ errlog' = Append(errlog, Caught("top", year, div, page))
         /\ returned' = ScoresFallback(df)
         /\ result' = "returned"
         /\ pc' = "done"
    ELSE /\ errlog' = errlog
         /\ returned' = returned
         /\ result' = "raised"
         /\ pc' = "done"

\* RecodeRank with DNF missing from the list of line 243
RecodeRankWithoutDNF(rank) ==
    [rankReason |-> IF rank = Str(CUT) THEN Str(CUT)
                    ELSE IF rank = Str(WD) THEN Str(WD)
                    ELSE IF rank = Str(DNF) THEN Str(DNF)
                    ELSE Null,
     rank       |-> IF rank \in {Str(CUT), Str(WD)} THEN Num(0) ELSE rank]

\* the rank transformation of lines 240-243 on one row's rank: rankReason
\* takes the rank where it is CUT, WD or DNF, then that rank becomes 0
RecodeRank(rank) ==
    [rankReason |-> IF rank = Str(CUT) THEN Str(CUT)
                    ELSE IF rank = Str(WD) THEN Str(WD)
                    ELSE IF rank = Str(DNF) THEN Str(DNF)
                    ELSE Null,
     rank       |-> IF rank \in {Str(CUT), Str(WD), Str(DNF)} THEN Num(0)
                    ELSE rank]

\* the returned table: lines 240-245 on the accumulated rows
ScoresTable(rows, y) ==
    LET recoded == [i \in DOMAIN rows |-> RecodeRank(RankOf(rows[i][1], rows[i][2]))]
        ranks   == ColumnToNumeric([i \in DOMAIN rows |-> recoded[i].rank])
        reasons == ColumnToNumeric([i \in DOMAIN rows |-> recoded[i].rankReason])
    IN  [i \in DOMAIN rows |->
            [competitorId      |-> rows[i][1],
             ordinal           |-> rows[i][2],
             year              |-> y,
             division          |-> rows[i][1][1],
             rank              |-> ranks[i],
             rankReason        |-> reasons[i],
             scoreDisplay      |-> ScoreDisplayOf(rows[i][1], rows[i][2]),
             scoreIsWeightInKg |-> LbToKg(ScoreDisplayOf(rows[i][1], rows[i][2]))]]

\* "for current_division in division_value": games_info for the division
ScoresDivision(outcome) ==
    /\ entry = "games_info_scores"
    /\ pc = "s_div"
    /\ MayFail(outcome)
    /\ LET dv  == DivisionValue(division)
           div == dv[di]
           r   == GamesInfo(year, div)
       IN  /\ fetchLog' = Append(fetchLog, Fetch("games_info", year, div, 1, outcome))
           /\ fails' = Failed(outcome)
           /\ IF outcome = "ok"
              THEN /\ info' = r
                   /\ page' = IF r[2] >= 1 THEN 1 ELSE page
                   /\ di' = IF r[2] < 1 /\ di < Len(dv) THEN di + 1 ELSE di
                   /\ pc' = IF r[2] >= 1 THEN "s_page"
                            ELSE IF di < Len(dv) THEN "s_div" ELSE "s_post"
                   /\ UNCHANGED <<errlog, result, returned>>
              ELSE /\ ScoresRaise("games_info", div)
                   /\ UNCHANGED <<info, page, di>>
    /\ UNCHANGED <<call, year, df, walk, mdf, mresult>>

\* One iteration of "for page in range(1, total_pages + 1)": the page is
\* fetched and, for each competitor index, the flattened scores are appended;
\* the except clause inside the row loop continues with the next index.
ScoresPage(outcome) ==
    /\ entry = "games_info_scores"
    /\ pc = "s_page"
    /\ outcome \in {"ok", "RequestException"}
    /\ MayFail(outcome)
    /\ LET dv   == DivisionValue(division)
           div  == dv[di]
           idxs == PyRange(NumResults(page, info[2], info[3]))
           good == SelectSeq(idxs, LAMBDA i : RowReadable(page, i))
           last == page >= info[2]
       IN  /\ fetchLog' = Append(fetchLog, Fetch("page", year, div, page, outcome))
           /\ fails' = Failed(outcome)
           /\ IF outcome = "ok"
              THEN /\ walk' = Append(walk, [division |-> div, page |-> page,
                                            idxs |-> idxs])
                   /\ df' = df \o Flatten([j \in DOMAIN good |->
                                [e \in 1..Cardinality(Events) |->
                                    <<(<<div, page, good[j]>>), e>>]])
                   /\ errlog' = IF Len(good) = Len(idxs) THEN errlog
                                ELSE Append(errlog,
                                       Caught(ScoresHandler("row"), year, div, page))
                   /\ page' = IF last THEN page ELSE page + 1
                   /\ di' = IF last /\ di < Len(dv) THEN di + 1 ELSE di
                   /\ pc' = IF ~last THEN "s_page"
                            ELSE IF di < Len(dv) THEN "s_div" ELSE "s_post"
                   /\ UNCHANGED <<result, returned>>
              ELSE /\ ScoresRaise("page", div)
                   /\ UNCHANGED <<walk, df, page, di>>
    /\ UNCHANGED <<call, year, info, mdf, mresult>>

\* The transformations of lines 238-248, inside the function's try block.
\* df['rank'] raises KeyError when no row was appended.
ScoresTransform ==
    /\ entry = "games_info_scores"
    /\ pc = "s_post"
    /\ IF df = <<>>
       THEN ScoresRaise("transform", DivisionValue(division)[di])
       ELSE /\ returned' = ScoresTable(df, year)
            /\ result' = "returned"
            /\ pc' = "done"
            /\ errlog' = errlog
    /\ UNCHANGED <<call, fails, fetchLog, year, di, info, page, df, walk,
                   mdf, mresult>>

(* --------------------------- specification ---------------------------- *)
\* games_info_competitor_multiple is explored on leaderboards of one page
MultiMetas == {m \in Metas : m.totalPages <= 1}

InitFor(entries) ==
    /\ entry \in entries
    /\ division \in 0..3
    /\ year_from = FirstYear
    /\ year_too \in IF entry \in {"games_info_multiple",
                                  "games_info_competitor_multiple"}
                    THEN FirstYear..(FirstYear + MaxYears - 1)
                    ELSE {FirstYear}
    /\ meta \in IF entry = "games_info_competitor_multiple" THEN MultiMetas
                ELSE Metas
    /\ malformed \in IF entry \in {"games_info_competitors", "games_info_scores"}
                     THEN {{}, {1}}
                     ELSE {{}}
    /\ fails = 0
    /\ fetchLog = <<>>
    /\ errlog = <<>>
    /\ pc = IF entry = "games_info_multiple" THEN "im_div"
            ELSE IF entry = "games_info_scores" THEN "s_div"
            ELSE "c_div"
    /\ year = FirstYear
    /\ di = 1
    /\ info = <<>>
    /\ page = 0
    /\ df = <<>>
    /\ walk = <<>>
    /\ result = "none"
    /\ returned = <<>>
    /\ mdf = <<>>
    /\ mresult = "none"

Init ==
    InitFor({"games_info_multiple", "games_info_competitors",
             "games_info_competitor_multiple", "games_info_scores"})

Next ==
    \/ \E outcome \in GamesInfoOutcomes : InfoMultipleStep(outcome)
    \/ InfoMultipleReturn
    \/ \E outcome \in GamesInfoOutcomes : CompetitorsDivision(outcome)
    \/ \E outcome \in GamesInfoOutcomes : CompetitorsPage(outcome)
    \/ \E converts \in BOOLEAN : CompetitorsTransform(converts)
    \/ CompetitorMultipleNext
    \/ \E outcome \in GamesInfoOutcomes : ScoresDivision(outcome)
    \/ \E outcome \in GamesInfoOutcomes : ScoresPage(outcome)
    \/ ScoresTransform

\* a call of any of the four functions
Spec == Init /\ [][Next]_vars

\* a call of games_info_multiple
InitInfoMultiple == InitFor({"games_info_multiple"})
NextInfoMultiple ==
    \/ \E outcome \in GamesInfoOutcomes : InfoMultipleStep(outcome)
    \/ InfoMultipleReturn
SpecInfoMultiple == InitInfoMultiple /\ [][NextInfoMultiple]_vars

\* a call of games_info_competitors
InitCompetitors == InitFor({"games_info_competitors"})
NextCompetitors ==
    \/ \E outcome \in GamesInfoOutcomes : CompetitorsDivision(outcome)
    \/ \E outcome \in GamesInfoOutcomes : CompetitorsPage(outcome)
    \/ \E converts \in BOOLEAN : CompetitorsTransform(converts)
SpecCompetitors == InitCompetitors /\ [][NextCompetitors]_vars

\* a call of games_info_competitor_multiple
InitCompetitorMultiple == InitFor({"games_info_competitor_multiple"})
NextCompetitorMultiple ==
    \/ \E outcome \in GamesInfoOutcomes : CompetitorsDivision(outcome)
    \/ \E outcome \in GamesInfoOutcomes : CompetitorsPage(outcome)
    \/ \E converts \in BOOLEAN : CompetitorsTransform(converts)
    \/ CompetitorMultipleNext
SpecCompetitorMultiple == InitCompetitorMultiple /\ [][NextCompetitorMultiple]_vars

\* a call of games_info_scores
InitScores == InitFor({"games_info_scores"})
NextScores ==
    \/ \E outcome \in GamesInfoOutcomes : ScoresDivision(outcome)
    \/ \E outcome \in GamesInfoOutcomes : ScoresPage(outcome)
    \/ ScoresTransform
SpecScores == InitScores /\ [][NextScores]_vars

(* ------------------------------ claims -------------------------------- *)
\* the divisions a division argument stands for
ExpectedDivisions == IF division = 1 THEN {1} ELSE IF division = 2 THEN {2} ELSE {1, 2}

Years == year_from..year_too

FailedFetches == {i \in DOMAIN fetchLog : fetchLog[i].outcome # "ok"}

\* the metadata is that of a leaderboard: totalPages = ceil(totalCompetitors / 50)
ConsistentMeta ==
    /\ (meta.totalPages - 1) * 50 < meta.totalCompetitors
    /\ meta.totalCompetitors <= meta.totalPages * 50

\* the competitors the API serves on page p of division d
PageCompetitors(d, p) ==
    {<<d, p, i>> : i \in 0..(RowsOnPage(meta.totalCompetitors, p) - 1)}

Sentinels == {Str(CUT), Str(WD), Str(DNF)}

RankNumber(c) == IF c.t = "int" THEN c.n ELSE ParseInt(c.s)

\* C1 (as claimed): when exactly one page fetch of a games_info_competitors
\* call fails and every other fetch succeeds, the call returns a table and
\* the table holds the rows of every page that was fetched.
C1_FaultIsolation ==
    ( /\ entry = "games_info_competitors"
      /\ pc = "done"
      /\ malformed = {}
      /\ ConsistentMeta
      /\ meta.totalCompetitors % 50 # 0
      /\ Cardinality(FailedFetches) = 1
      /\ \A i \in FailedFetches : fetchLog[i].by = "page" )
    => /\ result = "returned"
       /\ \A i \in DOMAIN fetchLog \ FailedFetches :
              fetchLog[i].by = "page" =>
                 \A id \in PageCompetitors(fetchLog[i].division, fetchLog[i].page) :
                     \E k \in DOMAIN returned : returned[k].competitorId = id

\* C2 (as claimed): games_info_multiple returns, and every (year, division)
\* combination of the range is fetched and, when its fetch succeeds, has its
\* row in the returned table.
C2_OnlyTheFailedCombinationSkipped ==
    (entry = "games_info_multiple" /\ pc = "done")
    => /\ result = "returned"
       /\ \A y \in Years : \A d \in ExpectedDivisions :
              \E i \in DOMAIN fetchLog :
                  /\ fetchLog[i].year = y
                  /\ fetchLog[i].division = d
                  /\ fetchLog[i].outcome = "ok" =>
                        \E k \in DOMAIN returned :
                            returned[k][5] = y /\ returned[k][6] = d

\* C3: games_info_scores never ends with an exception, and whenever a fetch
\* failed or the transformations failed on an empty frame, the table it
\* returns is empty.
C3_ScoresFailSoft ==
    entry = "games_info_scores"
    => /\ result # "raised"
       /\ pc = "done" =>
             /\ result = "returned"
             /\ (FailedFetches # {} \/ df = <<>>) => returned = <<>>

C3_Witness ==
    /\ entry = "games_info_scores"
    /\ pc = "done"
    /\ result = "returned"
    /\ \E i \in FailedFetches : fetchLog[i].by = "page"
    /\ df # <<>>
    /\ returned = <<>>

\* C4: on every page games_info_competitors fetches, the inner loop ranges
\* over the indexes 0..49 when the page is before totalPages and over
\* 0..(totalCompetitors mod 50)-1 otherwise; with 110 competitors on 3
\* pages the counts are 50, 50, 10.
C4_PaginationMath ==
    entry = "games_info_competitors"
    => /\ \A k \in DOMAIN walk :
              walk[k].idxs =
                 [j \in 1..(IF walk[k].page < meta.totalPages THEN 50
                            ELSE meta.totalCompetitors % 50) |-> j - 1]
       /\ ( /\ meta.totalPages = 3
            /\ meta.totalCompetitors = 110
            /\ division \in {1, 2}
            /\ fails = 0
            /\ pc \in {"c_post", "done"} )
          => [k \in DOMAIN walk |-> Len(walk[k].idxs)] = <<50, 50, 10>>

C4_Witness ==
    /\ entry = "games_info_competitors"
    /\ meta.totalPages = 3
    /\ meta.totalCompetitors = 110
    /\ division = 1
    /\ fails = 0
    /\ pc = "c_post"
    /\ Len(walk) = 3
    /\ Len(df) = 110

\* C5 (as claimed): when one page fetch of a games_info_scores call fails,
\* every page of every division is still fetched and the rows extracted
\* from the pages that were fetched are in the returned table.
C5_PageFailureSkipped ==
    ( /\ entry = "games_info_scores"
      /\ pc = "done"
      /\ malformed = {}
      /\ ConsistentMeta
      /\ Cardinality(FailedFetches) = 1
      /\ \A i \in FailedFetches : fetchLog[i].by = "page" )
    => /\ \A d \in ExpectedDivisions : \A p \in 1..meta.totalPages :
              \E i \in DOMAIN fetchLog :
                  /\ fetchLog[i].by = "page"
                  /\ fetchLog[i].division = d
                  /\ fetchLog[i].page = p
       /\ \A k \in DOMAIN df :
              \E j \in DOMAIN returned :
                  /\ returned[j].competitorId = df[k][1]
                  /\ returned[j].ordinal = df[k][2]

\* C5 (amended): a failed page fetch of games_info_scores is the last fetch
\* of the call: the call ends there and returns an empty table.
C5_PageFailureAborts ==
    entry = "games_info_scores"
    => \A i \in FailedFetches :
           fetchLog[i].by = "page" =>
              /\ i = Len(fetchLog)
              /\ pc = "done"
              /\ result = "returned"
              /\ returned = <<>>

C5_Witness ==
    /\ entry = "games_info_scores"
    /\ pc = "done"
    /\ fetchLog # <<>>
    /\ fetchLog[Len(fetchLog)].by = "page"
    /\ fetchLog[Len(fetchLog)].outcome # "ok"
    /\ fetchLog[Len(fetchLog)].page = 2
    /\ meta.totalPages = 3
    /\ di < Len(DivisionValue(division))
    /\ df # <<>>
    /\ returned = <<>>

\* C6 (as claimed): when every fetch for one year of a range of several
\* years fails and every other fetch succeeds, games_info_competitor_multiple
\* returns a table that holds the rows of every other year.
C6_OneBadYearDoesNotAbort ==
    \A bad \in Years :
        ( /\ entry = "games_info_competitor_multiple"
          /\ pc = "done"
          /\ year_too > year_from
          /\ malformed = {}
          /\ meta.totalPages = 1
          /\ meta.totalCompetitors % 50 # 0
          /\ \E i \in DOMAIN fetchLog : fetchLog[i].year = bad
          /\ \A i \in DOMAIN fetchLog :
                 fetchLog[i].year = bad <=> i \in FailedFetches )
        => /\ mresult = "returned"
           /\ \A y \in Years \ {bad} : \A d \in ExpectedDivisions :
                  \A id \in PageCompetitors(d, 1) :
                      \E k \in DOMAIN mdf :
                          mdf[k].year = y /\ mdf[k].competitorId = id

\* the division of a row of the accumulating table
RowDivision(r) ==
    IF entry = "games_info_multiple" THEN r[6]
    ELSE IF entry = "games_info_scores" THEN r[1][1]
    ELSE r[1]

\* C7: division 1 stands for division 1, division 2 for division 2, any
\* other value for divisions 1 and 2 in that order: every fetch and row is
\* of such a division, within a year no fetch or row of division 2 comes
\* before one of division 1, and a call without failures fetches them all.
C7_DivisionExpansion ==
    /\ \A i \in DOMAIN fetchLog : fetchLog[i].division \in ExpectedDivisions
    /\ \A i, j \in DOMAIN fetchLog :
           (i < j /\ fetchLog[i].year = fetchLog[j].year)
           => fetchLog[i].division <= fetchLog[j].division
    /\ \A i \in DOMAIN df : RowDivision(df[i]) \in ExpectedDivisions
    /\ \A i \in 1..(Len(df) - 1) :
           \/ RowDivision(df[i]) <= RowDivision(df[i + 1])
           \/ (entry = "games_info_multiple" /\ df[i][5] < df[i + 1][5])
    /\ \A i \in 1..(Len(mdf) - 1) :
           \/ mdf[i].year < mdf[i + 1].year
           \/ /\ mdf[i].year = mdf[i + 1].year
              /\ mdf[i].competitorId[1] <= mdf[i + 1].competitorId[1]
    /\ (pc = "done" /\ fails = 0)
       => \A d \in ExpectedDivisions : \A y \in Years :
              \/ \E i \in DOMAIN fetchLog :
                     fetchLog[i].division = d /\ fetchLog[i].year = y
              \/ (mresult = "raised" /\ y > year)

C7_Witness ==
    /\ entry = "games_info_competitors"
    /\ division = 0
    /\ pc = "done"
    /\ result = "returned"
    /\ \E i \in DOMAIN returned : returned[i].competitorId[1] = 1
    /\ \E i \in DOMAIN returned : returned[i].competitorId[1] = 2

\* C8: in the table games_info_scores returns, a row whose rank was CUT, WD
\* or DNF has that value as rankReason and rank 0; every other row has its
\* rank, as a number, and a null rankReason.
C8_RankRecoding ==
    (entry = "games_info_scores" /\ pc = "done" /\ FailedFetches = {} /\ df # <<>>)
    => /\ Len(returned) = Len(df)
       /\ \A k \in DOMAIN returned :
              LET raw == RankOf(returned[k].competitorId, returned[k].ordinal)
              IN  IF raw \in Sentinels
                  THEN /\ returned[k].rank = Num(0)
                       /\ returned[k].rankReason = raw
                  ELSE /\ returned[k].rank = Num(RankNumber(raw))
                       /\ returned[k].rankReason = Null

C8_Witness ==
    /\ entry = "games_info_scores"
    /\ pc = "done"
    /\ \E k \in DOMAIN returned :
           returned[k].rankReason = Str(CUT) /\ returned[k].rank = Num(0)
    /\ \E k \in DOMAIN returned :
           returned[k].rankReason = Null /\ returned[k].rank # Num(0)

\* C9 (as claimed): with the metadata of a leaderboard of at least one
\* competitor and no failing fetch, the walk of games_info_competitors
\* extracts one row per competitor of each division, totalCompetitors rows.
C9_WalkExtractsEveryCompetitor ==
    ( /\ entry = "games_info_competitors"
      /\ pc = "c_post"
      /\ malformed = {}
      /\ fails = 0
      /\ meta.totalCompetitors >= 1
      /\ ConsistentMeta )
    => \A d \in ExpectedDivisions :
           Cardinality({k \in DOMAIN df : df[k][1] = d}) = meta.totalCompetitors

\* C10 (as claimed): on every page games_info_scores fetches, its row loop
\* ranges over the row indexes the loop of games_info_competitors ranges
\* over for the same page and metadata.
C10_SameRowIndexes ==
    entry = "games_info_scores"
    => \A k \in DOMAIN walk :
           walk[k].idxs = CompetitorsOnPage(walk[k].page, meta.totalPages,
                                            meta.totalCompetitors)

====
